---- MODULE Spec2Model ----
(***************************************************************************)
(* Model of app.py: a Flask application holding one module-level reference *)
(* `index`, built by construct_index at import time and by the reload      *)
(* route, and read by generate_response for every query.                   *)
(*                                                                         *)
(* The module body (import time) runs as process Main; every request is    *)
(* handled by one of the server's threads.  A handler is split only where  *)
(* it reads or writes the shared reference or the docs directory, so that  *)
(* the interleavings of concurrent requests are the ones the code allows.  *)
(***************************************************************************)
EXTENDS Integers, FiniteSets, Sequences, TLC

\* Bounds of the model.
NumThreads == 2          \* request-handling threads of the server
MaxBuilds == 2           \* VectorStoreIndex objects built in one run

Main == 0
Threads == 1..NumThreads
Procs == {Main} \cup Threads

\* index = None (line 30); a built index is identified by a positive number.
NoIndex == 0

\* State of the "docs" directory on disk.
Dirs == {"missing", "empty", "nonempty"}

\* JSON values of the "input_text" member of a request body; JsonNull is what
\* dict.get returns for an absent key or a JSON null (Python None).
JsonNull == "<None>"
InputTexts == {JsonNull, "", "What is in the docs?"}
Bodies == {[other |-> "x"]} \cup {[input_text |-> v] : v \in InputTexts}

\* request.json.get(key)
JsonGet(body, key) == IF key \in DOMAIN body THEN body[key] ELSE JsonNull

\* Mutant: `if input_text is None` instead of `if not input_text`.
Truthy_not_none(v) == v # JsonNull

\* Python truthiness of a JSON string or None: `not input_text` is its negation.
Truthy(v) == v \notin {JsonNull, ""}

\* The fixed strings of the program.
UNAVAILABLE == "Error: Chatbot index is not available. Please try again later."
QUERY_FAILED == "Error: Could not generate a response."
INPUT_REQUIRED == "input_text is required"
RELOAD_OK == "Index reloaded successfully"
RELOAD_FAILED == "Failed to reload index"
HELLO == "Hello from your DeepSeek-powered chatbot!"
INTERNAL_ERROR == "Internal Server Error"

\* str(response) of the library's query engine: opaque text.
LibraryAnswers == {"answer"}

VARIABLES
    cred,        \* DEEPSEEK_API_KEY is set in .env
    dir,         \* state of the docs directory
    index,       \* the global `index`
    nextId,      \* identity of the next VectorStoreIndex object built; history:
                 \* nextId - 1 objects have been built so far
    okReload,    \* history: some reload request has answered 200
    pc,          \* position of Main and of every thread
    loc          \* locals of Main and of every thread

vars == <<cred, dir, index, nextId, okReload, pc, loc>>

NoResp == [status |-> 0, body |-> [none |-> TRUE]]

\* Locals of a process.  had and afterOK are history: whether the index was
\* present, and whether a reload had answered 200, when the request came in.
\* outcome tells how the library call of the request ended, built is the index
\* object the process built, queried whether it called the query engine.
NoLoc == [route |-> "none", input_text |-> JsonNull, had |-> FALSE,
          afterOK |-> FALSE, outcome |-> "none", built |-> NoIndex,
          queried |-> FALSE, resp |-> NoResp]

\* make_response(jsonify(b), st)
make_response(l, st, b) == [l EXCEPT !.resp = [status |-> st, body |-> b]]

Init ==
    /\ cred \in BOOLEAN
    /\ dir \in Dirs
    /\ index = NoIndex
    /\ nextId = 1
    /\ okReload = FALSE
    /\ pc = [p \in Procs |-> IF p = Main THEN "boot" ELSE "idle"]
    /\ loc = [p \in Procs |-> NoLoc]

Serving == pc[Main] = "serving"

----------------------------------------------------------------------------
\* Mutant: the missing key is logged but startup goes on.
CredentialCheck_logs_only ==
    /\ pc[Main] = "boot"
    /\ pc' = [pc EXCEPT ![Main] = "mkdir"]
    /\ UNCHANGED <<cred, dir, index, nextId, okReload, loc>>

\* Module body, lines 16-20: the API key check.
CredentialCheck ==
    /\ pc[Main] = "boot"
    /\ pc' = [pc EXCEPT ![Main] = IF cred THEN "mkdir" ELSE "crashed"]
    /\ UNCHANGED <<cred, dir, index, nextId, okReload, loc>>

\* Module body, lines 86-90: create docs if missing, then call construct_index.
EnsureDocsDir ==
    /\ pc[Main] = "mkdir"
    /\ dir' = IF dir = "missing" THEN "empty" ELSE dir
    /\ pc' = [pc EXCEPT ![Main] = "ci_load"]
    /\ loc' = [loc EXCEPT ![Main] = [NoLoc EXCEPT !.route = "startup"]]
    /\ UNCHANGED <<cred, index, nextId, okReload>>

----------------------------------------------------------------------------
\* Mutant: the route answers 200 whatever construct_index returned.
reload_index_route_always_ok(l, r) ==
    make_response(l, 200, [message |-> RELOAD_OK])

\* reload_index_route, lines 72-75: the status follows the truthiness of what
\* construct_index returned (an index object is truthy, None is not).
reload_index_route(l, r) ==
    IF r # NoIndex
    THEN make_response(l, 200, [message |-> RELOAD_OK])
    ELSE make_response(l, 500, [error |-> RELOAD_FAILED])

\* construct_index returns r to its caller: the module body goes on to serve
\* (line 90 discards r), the reload route answers.
Return(p, l, r) ==
    /\ pc' = [pc EXCEPT ![p] = IF p = Main THEN "serving" ELSE "done"]
    /\ loc' = [loc EXCEPT ![p] = IF p = Main THEN l ELSE reload_index_route(l, r)]
    /\ okReload' = (okReload \/ (p # Main /\ r # NoIndex))

\* Mutant: a failed construction stores None in the global before returning.
construct_failed_clears(p, why) ==
    /\ index' = NoIndex
    /\ Return(p, [loc[p] EXCEPT !.outcome = why], NoIndex)

\* Lines 37-39 and 43-45: log and `return None`; the global is not assigned.
construct_failed(p, why) ==
    /\ index' = index
    /\ Return(p, [loc[p] EXCEPT !.outcome = why], NoIndex)

\* What SimpleDirectoryReader(directory_path).load_data() can do, line 36:
\* raise (missing directory, no files, unreadable file), return an empty list,
\* or return documents.
LoadOutcomes(d) ==
    CASE d = "missing" -> {"raised"}
      [] d = "empty" -> {"raised", "nodocs"}
      [] d = "nonempty" -> {"raised", "docs"}

\* Mutant: construct_index drops the old index before it loads the documents.
ci_load_resets(p) ==
    /\ pc[p] = "ci_load"
    /\ \E o \in LoadOutcomes(dir) :
          IF o = "docs"
          THEN /\ pc' = [pc EXCEPT ![p] = "ci_build"]
               /\ index' = NoIndex
               /\ UNCHANGED <<okReload, loc>>
          ELSE construct_failed_clears(p, o)
    /\ UNCHANGED <<cred, dir, nextId>>

\* construct_index, lines 34-39: load the documents.
ci_load(p) ==
    /\ pc[p] = "ci_load"
    /\ \E o \in LoadOutcomes(dir) :
          IF o = "docs"
          THEN /\ pc' = [pc EXCEPT ![p] = "ci_build"]
               /\ UNCHANGED <<index, okReload, loc>>
          ELSE construct_failed(p, o)
    /\ UNCHANGED <<cred, dir, nextId>>

\* Line 40, the store to the global declared on line 33.
assign_index(p, new) ==
    /\ index' = new

\* Mutant: no `global index` declaration; lines 40-42 store the new index in
\* a local and return that local, the global keeps its value.
ci_build_local(p) ==
    /\ pc[p] = "ci_build"
    /\ \/ /\ nextId <= MaxBuilds
          /\ index' = index
          /\ nextId' = nextId + 1
          /\ Return(p, [loc[p] EXCEPT !.outcome = "built", !.built = nextId],
                    nextId)
       \/ /\ construct_failed(p, "raised")
          /\ UNCHANGED nextId
    /\ UNCHANGED <<cred, dir>>

\* construct_index, line 40: VectorStoreIndex.from_documents raises (embedding
\* call fails) or yields a new index object, which is stored in the global.
ci_build(p) ==
    /\ pc[p] = "ci_build"
    /\ \/ /\ nextId <= MaxBuilds
          /\ assign_index(p, nextId)
          /\ nextId' = nextId + 1
          /\ pc' = [pc EXCEPT ![p] = "ci_return"]
          /\ loc' = [loc EXCEPT ![p].outcome = "built", ![p].built = nextId]
          /\ UNCHANGED okReload
       \/ /\ construct_failed(p, "raised")
          /\ UNCHANGED nextId
    /\ UNCHANGED <<cred, dir>>

\* construct_index, line 42: `return index` reads the global.
ci_return(p) ==
    /\ pc[p] = "ci_return"
    /\ Return(p, loc[p], index)
    /\ UNCHANGED <<cred, dir, index, nextId>>

\* A request enters a free thread once the server runs.
Accept(t, r) ==
    [NoLoc EXCEPT !.route = r, !.had = (index # NoIndex), !.afterOK = okReload]

\* POST /api/chatbot/reload, lines 70-72: log, call construct_index("docs").
reload_request(t) ==
    /\ Serving
    /\ pc[t] = "idle"
    /\ pc' = [pc EXCEPT ![t] = "ci_load"]
    /\ loc' = [loc EXCEPT ![t] = Accept(t, "reload")]
    /\ UNCHANGED <<cred, dir, index, nextId, okReload>>

\* Mutant: the probe reports 503 while no index is loaded.
hello_needs_index(t) ==
    /\ Serving
    /\ pc[t] = "idle"
    /\ pc' = [pc EXCEPT ![t] = "done"]
    /\ loc' = [loc EXCEPT ![t] =
                  IF index = NoIndex
                  THEN make_response(Accept(t, "hello"), 503,
                           [success |-> FALSE, message |-> HELLO, data |-> <<>>])
                  ELSE make_response(Accept(t, "hello"), 200,
                           [success |-> TRUE, message |-> HELLO, data |-> <<>>])]
    /\ UNCHANGED <<cred, dir, index, nextId, okReload>>

\* GET /api/chatbot/hello, lines 78-83.
hello(t) ==
    /\ Serving
    /\ pc[t] = "idle"
    /\ pc' = [pc EXCEPT ![t] = "done"]
    /\ loc' = [loc EXCEPT ![t] =
                  make_response(Accept(t, "hello"), 200,
                      [success |-> TRUE, message |-> HELLO, data |-> <<>>])]
    /\ UNCHANGED <<cred, dir, index, nextId, okReload>>

\* POST /api/chatbot, lines 62-66: validate input_text, then call
\* generate_response.
chatbot(t) ==
    /\ Serving
    /\ pc[t] = "idle"
    /\ \E json \in Bodies :
          LET input_text == JsonGet(json, "input_text")
              l == [Accept(t, "chatbot") EXCEPT !.input_text = input_text]
          IN  IF ~Truthy(input_text)
              THEN /\ pc' = [pc EXCEPT ![t] = "done"]
                   /\ loc' = [loc EXCEPT ![t] =
                                 make_response(l, 400, [error |-> INPUT_REQUIRED])]
              ELSE /\ pc' = [pc EXCEPT ![t] = "gr_check"]
                   /\ loc' = [loc EXCEPT ![t] = l]
    /\ UNCHANGED <<cred, dir, index, nextId, okReload>>

\* Mutant: no `index is None` test, generate_response goes straight to the try.
gr_check_no_test(t) ==
    /\ pc[t] = "gr_check"
    /\ pc' = [pc EXCEPT ![t] = "gr_query"]
    /\ UNCHANGED <<cred, dir, index, nextId, okReload, loc>>

\* generate_response, lines 49-51, and the return through line 67.
gr_check(t) ==
    /\ pc[t] = "gr_check"
    /\ IF index = NoIndex
       THEN /\ pc' = [pc EXCEPT ![t] = "done"]
            /\ loc' = [loc EXCEPT ![t] =
                          make_response(loc[t], 200, [response |-> UNAVAILABLE])]
       ELSE /\ pc' = [pc EXCEPT ![t] = "gr_query"]
            /\ loc' = loc
    /\ UNCHANGED <<cred, dir, index, nextId, okReload>>

\* Mutant: no except clause, Flask answers 500 for the unhandled exception.
query_raised_unhandled(l) ==
    make_response([l EXCEPT !.outcome = "raised"], 500, [error |-> INTERNAL_ERROR])

\* Lines 56-58: the except clause turns any query exception into a string.
query_raised(l) ==
    make_response([l EXCEPT !.outcome = "raised"], 200, [response |-> QUERY_FAILED])

\* Lines 53-55 without an exception: the engine's answer as a string.
query_answered(l, a) ==
    make_response([l EXCEPT !.outcome = "answered"], 200, [response |-> a])

\* Mutant: a failed query drops the index.
gr_query_drops_index(t) ==
    /\ pc[t] = "gr_query"
    /\ pc' = [pc EXCEPT ![t] = "done"]
    /\ LET l == [loc[t] EXCEPT !.queried = (index # NoIndex)]
       IN  \/ /\ index # NoIndex
              /\ \E a \in LibraryAnswers :
                    loc' = [loc EXCEPT ![t] = query_answered(l, a)]
              /\ UNCHANGED index
           \/ /\ loc' = [loc EXCEPT ![t] = query_raised(l)]
              /\ index' = NoIndex
    /\ UNCHANGED <<cred, dir, nextId, okReload>>

\* generate_response, lines 52-58, and the return through line 67: the global
\* is read again for as_query_engine(); the engine answers or raises.
gr_query(t) ==
    /\ pc[t] = "gr_query"
    /\ pc' = [pc EXCEPT ![t] = "done"]
    /\ IF index = NoIndex
       THEN \* None.as_query_engine() raises AttributeError inside the try
            loc' = [loc EXCEPT ![t] = query_raised(loc[t])]
       ELSE LET l == [loc[t] EXCEPT !.queried = TRUE]
            IN  \/ \E a \in LibraryAnswers :
                      loc' = [loc EXCEPT ![t] = query_answered(l, a)]
                \/ loc' = [loc EXCEPT ![t] = query_raised(l)]
    /\ UNCHANGED <<cred, dir, index, nextId, okReload>>

\* The response has been sent; the thread is free again.
Finish(t) ==
    /\ pc[t] = "done"
    /\ pc' = [pc EXCEPT ![t] = "idle"]
    /\ loc' = [loc EXCEPT ![t] = NoLoc]
    /\ UNCHANGED <<cred, dir, index, nextId, okReload>>

\* The environment changes the docs directory (files added or removed, the
\* directory deleted or created).
DirChange ==
    /\ \E d \in Dirs \ {dir} : dir' = d
    /\ UNCHANGED <<cred, index, nextId, okReload, pc, loc>>

Next ==
    \/ CredentialCheck
    \/ EnsureDocsDir
    \/ \E p \in Procs : ci_load(p)
    \/ \E p \in Procs : ci_build(p)
    \/ \E p \in Procs : ci_return(p)
    \/ \E t \in Threads : reload_request(t)
    \/ \E t \in Threads : hello(t)
    \/ \E t \in Threads : chatbot(t)
    \/ \E t \in Threads : gr_check(t)
    \/ \E t \in Threads : gr_query(t)
    \/ \E t \in Threads : Finish(t)
    \/ DirChange

Spec == Init /\ [][Next]_vars

TypeOK ==
    /\ cred \in BOOLEAN
    /\ dir \in Dirs
    /\ index \in 0..MaxBuilds
    /\ nextId \in 1..(MaxBuilds + 1)
    /\ okReload \in BOOLEAN
    /\ pc \in [Procs -> {"boot", "crashed", "mkdir", "serving", "idle", "done",
                         "ci_load", "ci_build", "ci_return", "gr_check", "gr_query"}]

----------------------------------------------------------------------------
\* Vocabulary of the properties.

\* Thread t has finished a request of route r and holds its response.
Answered(t, r) == pc[t] = "done" /\ loc[t].route = r

\* The input_text values the interface calls missing or falsy: no such key or
\* null (both read as None), and the empty string.
MissingOrFalsy == {JsonNull, ""}

\* Thread t has finished POST /api/chatbot with a non-empty input_text.
QueryAnswered(t) ==
    Answered(t, "chatbot") /\ loc[t].input_text \notin MissingOrFalsy

Status(t) == loc[t].resp.status
Body(t) == loc[t].resp.body

\* Thread t is inside construct_index for a reload request.
Reloading(t) ==
    loc[t].route = "reload" /\ pc[t] \in {"ci_load", "ci_build", "ci_return"}

\* Thread t takes, in this step, the failure exit of construct_index and
\* answers the reload request with 500.
ReloadFails(t) ==
    /\ Reloading(t)
    /\ pc'[t] = "done"
    /\ loc'[t].resp.status = 500

\* The bodies POST /api/chatbot sends for an index/query result.
LibraryResults == {[response |-> x] : x \in LibraryAnswers \cup {QUERY_FAILED}}

----------------------------------------------------------------------------
\* C1, as stated: whenever a reload request that came in with a working index
\* has answered 500 (construction failed), the index reference is absent.
C1_FailedReloadClearsIndex ==
    \A t \in Threads :
        (Answered(t, "reload") /\ Status(t) = 500 /\ loc[t].had)
            => index = NoIndex

\* C1, amended: the failure exit of construct_index does not touch the index
\* reference; a reload that came in with a working index and answers 500
\* leaves an index in place, and a query that comes in while the index is
\* present never gets the unavailability message.
C1_FailedReloadKeepsIndex ==
    /\ [][\A t \in Threads : ReloadFails(t) => index' = index]_vars
    /\ [](\A t \in Threads :
             (Answered(t, "reload") /\ Status(t) = 500 /\ loc[t].had)
                 => index # NoIndex)
    /\ [](\A t \in Threads :
             (QueryAnswered(t) /\ loc[t].had)
                 => Body(t) # [response |-> UNAVAILABLE])

\* A reload that came in with a working index has failed, the index is still
\* there, and a query that came in with the index present went to the engine.
C1_Witness ==
    \E t, u \in Threads :
        /\ Answered(t, "reload") /\ Status(t) = 500 /\ loc[t].had
        /\ QueryAnswered(u) /\ loc[u].had /\ loc[u].queried
        /\ index # NoIndex

\* C2: a finished reload request carries 200 and the success message exactly
\* when construct_index built an index, and 500 and the failure message
\* exactly when the load yielded no documents or a library call raised; it
\* carries nothing else.
C2_ReloadStatus ==
    \A t \in Threads :
        Answered(t, "reload") =>
            \/ /\ Status(t) = 200
               /\ Body(t) = [message |-> RELOAD_OK]
               /\ loc[t].outcome = "built"
               /\ loc[t].built # NoIndex
            \/ /\ Status(t) = 500
               /\ Body(t) = [error |-> RELOAD_FAILED]
               /\ loc[t].outcome \in {"nodocs", "raised"}
               /\ loc[t].built = NoIndex

\* Reloads have ended all three ways: one built an index over an existing
\* one, one found no documents, one saw a library call raise.
C2_Witness ==
    \E t, u \in Threads :
        /\ Answered(t, "reload") /\ Status(t) = 200 /\ loc[t].had
        /\ Answered(u, "reload") /\ Status(u) = 500
        /\ loc[u].outcome = "nodocs"

\* C3: once a reload has answered 200 the index reference is present; a query
\* with non-empty input_text that comes in afterwards is answered from the
\* query engine (its answer or the query-failure string), with status 200,
\* never with the unavailability message; and as long as no later build has
\* taken place the reference designates the index that reload built, which
\* is none of the indexes built by anyone else.
C3_AfterSuccessfulReload ==
    /\ okReload => index # NoIndex
    /\ \A t \in Threads :
          (QueryAnswered(t) /\ loc[t].afterOK) =>
              /\ Status(t) = 200
              /\ Body(t) \in LibraryResults
              /\ loc[t].queried
    /\ \A t \in Threads :
          (Answered(t, "reload") /\ Status(t) = 200) =>
              /\ loc[t].built # NoIndex
              /\ nextId = loc[t].built + 1 => index = loc[t].built
              /\ \A p \in Procs \ {t} : loc[p].built # loc[t].built

\* A reload that came in with an index present has answered 200, the
\* reference designates the index it built, and a query that came in after a
\* successful reload got the engine's answer.
C3_Witness ==
    \E u, v \in Threads :
        /\ Answered(u, "reload") /\ Status(u) = 200 /\ loc[u].had
        /\ index = loc[u].built
        /\ QueryAnswered(v) /\ loc[v].afterOK /\ loc[v].outcome = "answered"

\* C4: a finished POST /api/chatbot whose input_text is missing or falsy
\* carries 400 and {"error": "input_text is required"}, whatever the index
\* state, and the request never called the query engine.
C4_InputRequired ==
    \A t \in Threads :
        (Answered(t, "chatbot") /\ loc[t].input_text \in MissingOrFalsy) =>
            /\ Status(t) = 400
            /\ Body(t) = [error |-> INPUT_REQUIRED]
            /\ ~loc[t].queried
            /\ loc[t].outcome = "none"

\* An empty string was refused while no index was loaded, and a missing or
\* null input_text was refused with an index present.
C4_Witness ==
    \E t, u \in Threads :
        /\ Answered(t, "chatbot") /\ loc[t].input_text = "" /\ ~loc[t].had
        /\ Answered(u, "chatbot") /\ loc[u].input_text = JsonNull /\ loc[u].had
        /\ Status(t) = 400 /\ Status(u) = 400

\* C5: while the index reference is absent, every finished query with
\* non-empty input_text carries 200 and the unavailability message, without
\* a call to the query engine, and the process is serving; a startup whose
\* load finds the directory missing or empty ends serving with the index
\* absent, and a startup whose construction failed has built nothing.
C5_IndexAbsent ==
    /\ [](index = NoIndex =>
             \A t \in Threads :
                 QueryAnswered(t) =>
                     /\ Status(t) = 200
                     /\ Body(t) = [response |-> UNAVAILABLE]
                     /\ ~loc[t].queried
                     /\ Serving)
    /\ [](loc[Main].outcome \in {"nodocs", "raised"} =>
             /\ Serving
             /\ loc[Main].built = NoIndex
             /\ nextId = 1 => index = NoIndex)
    /\ [][(pc[Main] = "ci_load" /\ dir \in {"missing", "empty"}
              /\ pc'[Main] # "ci_load")
             => (pc'[Main] = "serving" /\ index' = NoIndex)]_vars

\* Startup found no documents, no index has been built since, and a query
\* with non-empty input_text has been answered.
C5_Witness ==
    \E t \in Threads :
        /\ loc[Main].outcome = "nodocs"
        /\ index = NoIndex
        /\ QueryAnswered(t)
        /\ Body(t) = [response |-> UNAVAILABLE]

\* C6: a finished POST /api/chatbot carries 200 or 400; with non-empty
\* input_text it carries 200 and a "response" body: the query-failure string
\* when the engine raised, the engine's answer when it answered, else the
\* unavailability message; no request ends as an unhandled server error.
C6_QueryAlways200 ==
    /\ \A t \in Threads :
          Answered(t, "chatbot") => Status(t) \in {200, 400}
    /\ \A t \in Threads :
          QueryAnswered(t) =>
              /\ Status(t) = 200
              /\ loc[t].outcome = "raised" => Body(t) = [response |-> QUERY_FAILED]
              /\ loc[t].outcome = "answered" =>
                     Body(t) \in {[response |-> a] : a \in LibraryAnswers}
              /\ loc[t].outcome = "none" => Body(t) = [response |-> UNAVAILABLE]
    /\ \A t \in Threads :
          pc[t] = "done" => Body(t) # [error |-> INTERNAL_ERROR]

\* A query whose engine raised and a reload whose construction raised have
\* both been answered.
C6_Witness ==
    \E t, u \in Threads :
        /\ QueryAnswered(t) /\ loc[t].outcome = "raised" /\ loc[t].queried
        /\ Answered(u, "reload") /\ loc[u].outcome = "raised"

\* C7: without the API key the module body stops at the key check: nothing
\* is built and no request is ever handled; with the key the process never
\* crashes, and once it serves it serves for ever, whatever requests come.
C7_OnlyCredentialCheckCrashes ==
    /\ [](~cred =>
             /\ pc[Main] \in {"boot", "crashed"}
             /\ index = NoIndex
             /\ nextId = 1
             /\ \A t \in Threads : pc[t] = "idle" /\ loc[t] = NoLoc)
    /\ [](cred => pc[Main] # "crashed")
    /\ [][(pc[Main] = "boot" /\ pc'[Main] # "boot")
             => pc'[Main] = IF cred THEN "mkdir" ELSE "crashed"]_vars
    /\ [][Serving => Serving']_vars

\* The server is running after a reload, and a query, have failed.
C7_Witness ==
    \E t, u \in Threads :
        /\ Serving
        /\ Answered(t, "reload") /\ Status(t) = 500
        /\ QueryAnswered(u) /\ loc[u].outcome = "raised"

\* C8: a finished GET /api/chatbot/hello carries 200, success = true and an
\* empty data object, and a free thread of the running server can always
\* answer it, whatever the index state and whatever the other threads do.
C8_HelloAlways200 ==
    \A t \in Threads :
        /\ Answered(t, "hello") =>
              /\ Status(t) = 200
              /\ Body(t) = [success |-> TRUE, message |-> HELLO, data |-> <<>>]
        /\ (Serving /\ pc[t] = "idle") => ENABLED hello(t)

\* hello has been answered with no index loaded, while another thread is in
\* the middle of a reload.
C8_Witness ==
    \E t, u \in Threads :
        /\ Answered(t, "hello")
        /\ index = NoIndex
        /\ Reloading(u) /\ pc[u] = "ci_build"

\* C9, on the interleaving it relies on: while a query that came in with the
\* index present waits to read the reference, a concurrent reload takes the
\* failure exit of construct_index, and the reference is absent afterwards
\* (so that the query reads None and answers with the unavailability message).
C9_ReloadFailureClearsUnderQuery ==
    [][\A t, u \in Threads :
          (pc[t] = "gr_check" /\ loc[t].had /\ ReloadFails(u))
              => index' = NoIndex]_vars

\* C9, amended: no interleaving of a query with reloads makes the query
\* observe an absent index once it came in with the index present: at both
\* of its reads of the reference (lines 49 and 53) the index is present, and
\* it is answered by the engine, never with the unavailability message.
C9_QueryNeverObservesAbsent ==
    \A t \in Threads :
        loc[t].route = "chatbot" /\ loc[t].had =>
            /\ pc[t] \in {"gr_check", "gr_query"} => index # NoIndex
            /\ QueryAnswered(t) =>
                  /\ loc[t].queried
                  /\ Body(t) \in LibraryResults

\* A query that came in with the index present has passed its None test
\* while a reload is between its load and its build; another state of the
\* same race has the reload already failed.
C9_Witness ==
    \E t, u \in Threads :
        /\ loc[t].route = "chatbot" /\ loc[t].had /\ pc[t] = "gr_query"
        /\ Reloading(u) /\ loc[u].had /\ pc[u] = "ci_build"

\* C10: a step of a POST /api/chatbot or GET /api/chatbot/hello request, in
\* any of its outcomes, leaves the index reference unchanged; the reference
\* changes only in line 40 of construct_index, run by the module body or by
\* a reload request.
C10_OnlyConstructIndexWrites ==
    /\ [][\A t \in Threads :
             (/\ pc'[t] # pc[t]
              /\ \/ loc[t].route \in {"chatbot", "hello"}
                 \/ loc'[t].route \in {"chatbot", "hello"})
                 => index' = index]_vars
    /\ [][index' # index =>
             \E p \in Procs :
                 /\ pc[p] = "ci_build" /\ pc'[p] = "ci_return"
                 /\ loc[p].route \in {"startup", "reload"}
                 /\ index' = loc'[p].built]_vars

\* With an index loaded, one query has been answered by the engine and
\* another has seen the engine raise; the reference is still there.
C10_Witness ==
    \E t, u \in Threads :
        /\ QueryAnswered(t) /\ loc[t].outcome = "answered"
        /\ QueryAnswered(u) /\ loc[u].outcome = "raised"
        /\ index # NoIndex

====
